---------------------------- MODULE Spec2Model ----------------------------
(***************************************************************************)
(* Model of the multi-tile chat backend: the /api/chat handler, the        *)
(* completion retry/fallback loop callOpenAIWithRetries, buildParams, the  *)
(* token ledger helpers addTokens / getTokens and the /api/verify-payment  *)
(* handler.                                                                *)
(*                                                                         *)
(* Texts the code inspects (model identifiers, error messages, completion  *)
(* contents) are sequences of one-character strings, so that toLowerCase,  *)
(* includes and trim are computed as the code computes them.  Texts the    *)
(* code only passes along (user ids, the user message, prompts) are plain  *)
(* strings.                                                                *)
(***************************************************************************)
EXTENDS Integers, Sequences, FiniteSets, TLC

VARIABLES
    OPENAI_MODEL,   \* process.env.OPENAI_MODEL; <<>> when unset
    token_usage,    \* table token_usage: sequence of rows, row id = index
    messages,       \* table messages: sequence of inserted rows
    served,         \* number of requests accepted so far
    pc,             \* per request slot: position in the handler
    body,           \* per slot: req.body of the request being handled
    usedTokens,     \* per slot: result of the quota read (line 147)
    cursor,         \* per slot: loop index i of callOpenAIWithRetries (1-based)
    lastError,      \* per slot: local lastError of callOpenAIWithRetries
    calls,          \* per slot: the Completion Client calls issued, in order
    result,         \* per slot: value returned (or thrown) by callOpenAIWithRetries
    aiMessage,      \* per slot: aiMessage (line 164)
    tokenCount,     \* per slot: tokenCount (line 165)
    existing,       \* per slot: local `existing` of addTokens
    wrote,          \* per slot: history flag, the ledger write of addTokens took effect
    response,       \* per slot: HTTP response sent
    route,          \* per slot: the route of the request being handled
    transactions,   \* table transactions: sequence of rows
    reached,        \* history: the user ids whose stored total has reached the ceiling
    startedAfter,   \* per slot: history flag, the request started when its user was in reached
    built           \* the last application of buildParams on its own: arguments and result

vars == <<OPENAI_MODEL, token_usage, messages, served, pc, body, usedTokens,
          cursor, lastError, calls, result, aiMessage, tokenCount, existing,
          wrote, response, route, transactions, reached, startedAfter, built>>

---------------------------------------------------------------------------
\* Bounds of the model

\* requests accepted in one behaviour of Spec
MaxRequests == 1

\* requests accepted in one behaviour of SpecConc
MaxConcRequests == 3

\* request slots handled concurrently in SpecConc
MaxConcurrent == 2

\* verify-payment requests accepted in one behaviour of SpecPay
MaxPayRequests == 2

---------------------------------------------------------------------------
\* Program constants

\* parseInt(process.env.FREE_TOKEN_LIMIT || "100000", 10)
FREE_TOKEN_LIMIT == 100000

\* opts.nanoLimit ?? 150 in buildParams
NANO_LIMIT_DEFAULT == 150

\* nanoLimit of the primary attempt
NANO_LIMIT_PRIMARY == 150

\* nanoLimit carried by the fallback attempt
NANO_LIMIT_FALLBACK == 150

\* nanoLimit of the nano-retry attempt
NANO_LIMIT_RETRY == 80

\* max_tokens of the text-model parameters
MAX_TOKENS == 400

\* the tokens verify-payment adds (line 243)
BONUS_TOKENS == 200000

---------------------------------------------------------------------------
\* Texts

GPT_4O_MINI == <<"g", "p", "t", "-", "4", "o", "-", "m", "i", "n", "i">>
GPT_5_NANO == <<"g", "p", "t", "-", "5", "-", "n", "a", "n", "o">>
INVALID_MODEL == <<"i", "n", "v", "a", "l", "i", "d", " ", "m", "o", "d", "e", "l">>
INVALID_MODEL_ID == <<"i", "n", "v", "a", "l", "i", "d", " ", "m", "o", "d", "e", "l", " ", "i", "d">>
UNKNOWN_MODEL == <<"u", "n", "k", "n", "o", "w", "n", " ", "m", "o", "d", "e", "l">>
UNSUPPORTED_PARAMETER == <<"u", "n", "s", "u", "p", "p", "o", "r", "t", "e", "d", " ", "p", "a", "r", "a", "m", "e", "t", "e", "r">>
UNSUPPORTED_VALUE == <<"u", "n", "s", "u", "p", "p", "o", "r", "t", "e", "d", " ", "v", "a", "l", "u", "e">>
EMPTY_RESPONSE == <<"e", "m", "p", "t", "y", "_", "r", "e", "s", "p", "o", "n", "s", "e">>
NO_RESPONSE_FROM_MODEL == <<"n", "o", "_", "r", "e", "s", "p", "o", "n", "s", "e", "_", "f", "r", "o", "m", "_", "m", "o", "d", "e", "l">>
\* stands for the apology text of line 164, "... (empty response after retries)"
EMPTY_AFTER_RETRIES == <<"(", "e", "m", "p", "t", "y", ")">>

\* configured model identifiers the environment may hold
ModelNanoUpper == <<"G", "P", "T", "-", "5", "-", "N", "a", "n", "o">>
ModelNanoDated == <<"g", "p", "t", "-", "5", "-", "n", "a", "n", "o", "-", "v", "2">>
ModelGpt5 == <<"g", "p", "t", "-", "5">>

\* messages of errors the Completion Client may throw
MsgUnsupportedParameter == <<"U", "n", "s", "u", "p", "p", "o", "r", "t", "e", "d", " ", "p", "a", "r", "a", "m", "e", "t", "e", "r", ":", " ", "x">>
MsgUnsupportedValue == <<"u", "n", "s", "u", "p", "p", "o", "r", "t", "e", "d", " ", "v", "a", "l", "u", "e">>
MsgInvalidModel == <<"I", "n", "v", "a", "l", "i", "d", " ", "m", "o", "d", "e", "l", " ", "I", "D">>
MsgUnknownModel == <<"U", "n", "k", "n", "o", "w", "n", " ", "m", "o", "d", "e", "l">>
MsgRateLimit == <<"R", "a", "t", "e", " ", "l", "i", "m", "i", "t">>

\* message of an error thrown by the database client
MsgDb == <<"d", "b">>

\* completion contents
TextHi == <<" ", "h", "i", " ">>
TextOk == <<"o", "k">>
TextBlank == <<" ", " ">>

---------------------------------------------------------------------------
\* String primitives

UpperChars == <<"A", "B", "C", "D", "E", "F", "G", "H", "I", "J", "K", "L", "M",
                "N", "O", "P", "Q", "R", "S", "T", "U", "V", "W", "X", "Y", "Z">>

LowerChars == <<"a", "b", "c", "d", "e", "f", "g", "h", "i", "j", "k", "l", "m",
                "n", "o", "p", "q", "r", "s", "t", "u", "v", "w", "x", "y", "z">>

\* String.prototype.toLowerCase
ToLowerCase(s) ==
    [k \in 1..Len(s) |->
        IF \E u \in 1..Len(UpperChars) : UpperChars[u] = s[k]
        THEN LowerChars[CHOOSE u \in 1..Len(UpperChars) : UpperChars[u] = s[k]]
        ELSE s[k]]

\* String.prototype.includes
Includes(s, sub) ==
    \E k \in 0..(Len(s) - Len(sub)) : SubSeq(s, k + 1, k + Len(sub)) = sub

IsSpace(c) == c = " "

RECURSIVE TrimStart(_)
TrimStart(s) ==
    IF s # <<>> /\ IsSpace(Head(s)) THEN TrimStart(Tail(s)) ELSE s

RECURSIVE TrimEnd(_)
TrimEnd(s) ==
    IF s # <<>> /\ IsSpace(s[Len(s)]) THEN TrimEnd(SubSeq(s, 1, Len(s) - 1)) ELSE s

\* String.prototype.trim
Trim(s) == TrimEnd(TrimStart(s))

---------------------------------------------------------------------------
\* JavaScript values that may be null: Null, or Some(v)

Null == <<>>

Some(v) == <<v>>

\* a thrown or recorded Error object
Err(message) == [message |-> message]

---------------------------------------------------------------------------
\* buildParams (pure)

SYSTEM_NANO == "You are a friendly Hinglish assistant. Keep responses short, clear, and conversational."

SYSTEM_TEXT == "You are a friendly Hinglish assistant. Answer clearly, simply, and conversationally under 400 words."

TEMPERATURE == "1.0"

\* m.includes("gpt-5-nano") on the lower-cased identifier
IsNanoModel(model) == Includes(ToLowerCase(model), GPT_5_NANO)

\* the limit read with || instead of ??: a limit of 0 gives the default
NanoLimitOf_Or(opts) ==
    IF "nanoLimit" \in DOMAIN opts /\ opts.nanoLimit # 0 THEN opts.nanoLimit
    ELSE NANO_LIMIT_DEFAULT

\* opts.nanoLimit ?? 150
NanoLimitOf(opts) ==
    IF "nanoLimit" \in DOMAIN opts THEN opts.nanoLimit ELSE NANO_LIMIT_DEFAULT

buildParams(model, userMessage, opts) ==
    IF IsNanoModel(model)
    THEN [model |-> model,
          messages |-> <<[role |-> "system", content |-> SYSTEM_NANO],
                         [role |-> "user", content |-> userMessage]>>,
          max_completion_tokens |-> NanoLimitOf(opts)]
    ELSE [model |-> model,
          messages |-> <<[role |-> "system", content |-> SYSTEM_TEXT],
                         [role |-> "user", content |-> userMessage]>>,
          max_tokens |-> MAX_TOKENS,
          temperature |-> TEMPERATURE]

---------------------------------------------------------------------------
\* callOpenAIWithRetries: the pure parts

\* process.env.OPENAI_MODEL || "gpt-4o-mini"
ConfiguredModel(env) == IF env = <<>> THEN GPT_4O_MINI ELSE env

\* the plan whose last entry asks the configured model again
Attempts_FallbackConfigured(configuredModel) ==
    <<[model |-> configuredModel, type |-> "primary", nanoLimit |-> NANO_LIMIT_PRIMARY],
      [model |-> configuredModel, type |-> "nano-retry", nanoLimit |-> NANO_LIMIT_RETRY],
      [model |-> configuredModel, type |-> "fallback", nanoLimit |-> NANO_LIMIT_FALLBACK]>>

\* the attempts array
Attempts(configuredModel) ==
    <<[model |-> configuredModel, type |-> "primary", nanoLimit |-> NANO_LIMIT_PRIMARY],
      [model |-> configuredModel, type |-> "nano-retry", nanoLimit |-> NANO_LIMIT_RETRY],
      [model |-> GPT_4O_MINI, type |-> "fallback", nanoLimit |-> NANO_LIMIT_FALLBACK]>>

\* SkipAttempt comparing the identifier without lower-casing it
SkipAttempt_CaseSensitive(attempt, attempts) ==
    attempt.type = "nano-retry" /\ ~Includes(attempts[1].model, GPT_5_NANO)

\* the `continue` at the top of the loop body: skip nano-retry if primary wasn't nano
SkipAttempt(attempt, attempts) ==
    attempt.type = "nano-retry" /\ ~Includes(ToLowerCase(attempts[1].model), GPT_5_NANO)

\* the loop index of the next attempt that issues a call, from index j on;
\* Len(attempts) + 1 when the loop ends
RECURSIVE NextCall(_, _)
NextCall(j, attempts) ==
    IF j > Len(attempts) THEN j
    ELSE IF SkipAttempt(attempts[j], attempts) THEN NextCall(j + 1, attempts)
    ELSE j

\* Candidate without the trim
Candidate_NoTrim(completion) ==
    IF completion.choices = <<>> THEN <<>>
    ELSE completion.choices[1].message.content

\* completion?.choices?.[0]?.message?.content?.trim(); <<>> when undefined
Candidate(completion) ==
    IF completion.choices = <<>> THEN <<>>
    ELSE Trim(completion.choices[1].message.content)

\* completion?.usage?.total_tokens || 0
TotalTokens(completion) == completion.usage.total_tokens

\* OnResponse without the early return: text is treated like an empty response
OnResponse_NoReturn(completion, params, lastErr) ==
    [control |-> "continue", lastError |-> Some(Err(EMPTY_RESPONSE))]

\* OnResponse reporting the configured model instead of the model that answered
OnResponse_ConfiguredModel(completion, params, lastErr) ==
    IF Candidate(completion) # <<>>
    THEN [control |-> "return",
          value |-> [completion |-> Some(completion),
                     modelUsed |-> Some(ConfiguredModel(OPENAI_MODEL))],
          lastError |-> lastErr]
    ELSE [control |-> "continue", lastError |-> Some(Err(EMPTY_RESPONSE))]

\* OnResponse keeping an earlier recorded error: lastError = lastError || new Error(..)
OnResponse_KeepFirstError(completion, params, lastErr) ==
    IF Candidate(completion) # <<>>
    THEN [control |-> "return",
          value |-> [completion |-> Some(completion), modelUsed |-> Some(params.model)],
          lastError |-> lastErr]
    ELSE [control |-> "continue",
          lastError |-> IF lastErr # Null THEN lastErr ELSE Some(Err(EMPTY_RESPONSE))]

\* the try block after the call resolved: return on text, else record
\* empty_response and continue
OnResponse(completion, params, lastErr) ==
    IF Candidate(completion) # <<>>
    THEN [control |-> "return",
          value |-> [completion |-> Some(completion), modelUsed |-> Some(params.model)],
          lastError |-> lastErr]
    ELSE [control |-> "continue", lastError |-> Some(Err(EMPTY_RESPONSE))]

\* OnError whose last branch continues without recording the error
OnError_NoRecord(err, attempt, lastErr) ==
    LET msg == ToLowerCase(err.message) IN
    IF (Includes(msg, INVALID_MODEL) \/ Includes(msg, INVALID_MODEL_ID)
          \/ Includes(msg, UNKNOWN_MODEL)) /\ attempt.model # GPT_4O_MINI
    THEN [control |-> "continue", lastError |-> Some(err)]
    ELSE IF Includes(msg, UNSUPPORTED_PARAMETER) \/ Includes(msg, UNSUPPORTED_VALUE)
    THEN [control |-> "continue", lastError |-> Some(err)]
    ELSE [control |-> "continue", lastError |-> lastErr]

\* OnError whose last branch rethrows instead of continuing
OnError_Rethrow(err, attempt, lastErr) ==
    LET msg == ToLowerCase(err.message) IN
    IF (Includes(msg, INVALID_MODEL) \/ Includes(msg, INVALID_MODEL_ID)
          \/ Includes(msg, UNKNOWN_MODEL)) /\ attempt.model # GPT_4O_MINI
    THEN [control |-> "continue", lastError |-> Some(err)]
    ELSE IF Includes(msg, UNSUPPORTED_PARAMETER) \/ Includes(msg, UNSUPPORTED_VALUE)
    THEN [control |-> "continue", lastError |-> Some(err)]
    ELSE [control |-> "throw", error |-> err, lastError |-> lastErr]

\* the catch block: every branch records the error and continues
OnError(err, attempt, lastErr) ==
    LET msg == ToLowerCase(err.message) IN
    IF (Includes(msg, INVALID_MODEL) \/ Includes(msg, INVALID_MODEL_ID)
          \/ Includes(msg, UNKNOWN_MODEL)) /\ attempt.model # GPT_4O_MINI
    THEN [control |-> "continue", lastError |-> Some(err)]
    ELSE IF Includes(msg, UNSUPPORTED_PARAMETER) \/ Includes(msg, UNSUPPORTED_VALUE)
    THEN [control |-> "continue", lastError |-> Some(err)]
    ELSE [control |-> "continue", lastError |-> Some(err)]

\* the local `completion` (lines 73, 88) after the calls of log: the value of
\* the last call that resolved, null when none did
LocalCompletion(log) ==
    LET resolved == {k \in 1..Len(log) : ~log[k].outcome.threw}
    IN  IF resolved = {} THEN Null
        ELSE Some(log[CHOOSE k \in resolved : \A l \in resolved : l <= k].outcome.completion)

\* the value returned after the loop, handing out the local completion
Exhausted_LocalCompletion(lastErr, completion) ==
    [completion |-> completion, modelUsed |-> Null, lastError |-> lastErr]

\* the value returned after the loop (line 135): completion is the literal null
Exhausted(lastErr, completion) ==
    [completion |-> Null, modelUsed |-> Null, lastError |-> lastErr]

---------------------------------------------------------------------------
\* The token ledger (utils/tokenManager.js) and the database client

\* indices of the rows selected by .eq("user_id", userId)
Matching(table, userId) == {k \in 1..Len(table) : table[k].user_id = userId}

\* what `await supabase.from(..).select("*").eq("user_id", userId).limit(1)` may
\* give: a thrown error, {data: null}, or {data: rows} with at most one of the
\* matching rows (no ORDER BY: any of them)
SelectOutcomes(table, userId, kinds) ==
    {[threw |-> TRUE, data |-> Null] : k \in kinds \cap {"throw"}}
    \cup {[threw |-> FALSE, data |-> Null] : k \in kinds \cap {"error"}}
    \cup (IF "ok" \notin kinds THEN {}
          ELSE IF Matching(table, userId) = {}
          THEN {[threw |-> FALSE, data |-> Some(<<>>)]}
          ELSE {[threw |-> FALSE, data |-> Some(<<table[k]>>)] : k \in Matching(table, userId)})

\* getTokens: data && data.length ? data[0].total_tokens : 0
getTokens(out) ==
    IF out.data # Null /\ Len(out.data[1]) > 0 THEN out.data[1][1].total_tokens ELSE 0

\* addTokens, the read-dependent branch: existing && existing.length > 0
HasExisting(ex) == ex # Null /\ Len(ex[1]) > 0

\* the total as an atomic increment would compute it: from the row as STORED
NewTotal_Atomic(ex, table, tokens) ==
    table[CHOOSE k \in 1..Len(table) : table[k].id = ex[1][1].id].total_tokens + tokens

\* addTokens line 58: total computed from the row as it was READ
NewTotal(ex, table, tokens) == ex[1][1].total_tokens + tokens

\* addTokens, the write: update of the row read, or insert of a new row
WriteLedger(table, ex, userId, tokens) ==
    IF HasExisting(ex)
    THEN [k \in 1..Len(table) |->
            IF table[k].id = ex[1][1].id
            THEN [table[k] EXCEPT !.total_tokens = NewTotal(ex, table, tokens)]
            ELSE table[k]]
    ELSE Append(table, [id |-> Len(table) + 1, user_id |-> userId, total_tokens |-> tokens])

\* the rows inserted into messages (lines 171-174); the user row carries no
\* tokens field and gets the column default 0
MessageRows(b, ai, tokens) ==
    <<[session_id |-> b.sessionId, role |-> "user", content |-> b.message, tokens |-> 0],
      [session_id |-> b.sessionId, role |-> "assistant", content |-> ai, tokens |-> tokens]>>

---------------------------------------------------------------------------
\* The chat handler

Slots == DOMAIN pc

\* handler locals before a request is accepted
NoBody == [userId |-> "", sessionId |-> "", message |-> ""]

NoResult == [state |-> "none"]

NoResponse == [status |-> 0]

\* buildParams has not been applied on its own
NoBuilt == [applied |-> FALSE]

\* the quota gate with a strict comparison
QuotaExhausted_Strict(used) == used > FREE_TOKEN_LIMIT

\* usedTokens >= FREE_TOKEN_LIMIT
QuotaExhausted(used) == used >= FREE_TOKEN_LIMIT

\* the validation testing the user id only
MissingFields_UserOnly(b) == b.userId = ""

\* !userId || !message
MissingFields(b) == b.userId = "" \/ b.message = ""

\* lines 141-147: a request arrives; validation; the quota read is issued
ChatRequest(r, b, limit) ==
    /\ pc[r] \in {"idle", "done"}
    /\ served < limit
    /\ served' = served + 1
    /\ body' = [body EXCEPT ![r] = b]
    /\ usedTokens' = [usedTokens EXCEPT ![r] = 0]
    /\ cursor' = [cursor EXCEPT ![r] = 0]
    /\ lastError' = [lastError EXCEPT ![r] = Null]
    /\ calls' = [calls EXCEPT ![r] = <<>>]
    /\ result' = [result EXCEPT ![r] = NoResult]
    /\ aiMessage' = [aiMessage EXCEPT ![r] = <<>>]
    /\ tokenCount' = [tokenCount EXCEPT ![r] = 0]
    /\ existing' = [existing EXCEPT ![r] = Null]
    /\ wrote' = [wrote EXCEPT ![r] = FALSE]
    /\ IF MissingFields(b)
       THEN /\ response' = [response EXCEPT ![r] =
                              [status |-> 400, body |-> [error |-> "Missing fields"]]]
            /\ pc' = [pc EXCEPT ![r] = "done"]
       ELSE /\ response' = [response EXCEPT ![r] = NoResponse]
            /\ pc' = [pc EXCEPT ![r] = "getTokens"]
    /\ route' = [route EXCEPT ![r] = "chat"]
    /\ startedAfter' = [startedAfter EXCEPT ![r] = b.userId \in reached]
    /\ UNCHANGED <<OPENAI_MODEL, token_usage, messages, transactions, reached, built>>

\* lines 147-154: the quota read resolves; quota gate; the retry loop is entered
ChatGetTokens(r, out) ==
    /\ pc[r] = "getTokens"
    /\ IF out.threw
       THEN /\ response' = [response EXCEPT ![r] =
                  [status |-> 500, body |-> [error |-> "server_error", details |-> MsgDb]]]
            /\ pc' = [pc EXCEPT ![r] = "done"]
            /\ UNCHANGED <<usedTokens, cursor>>
       ELSE /\ usedTokens' = [usedTokens EXCEPT ![r] = getTokens(out)]
            /\ IF QuotaExhausted(getTokens(out))
               THEN /\ response' = [response EXCEPT ![r] =
                          [status |-> 402, body |-> [error |-> "quota_exhausted"]]]
                    /\ pc' = [pc EXCEPT ![r] = "done"]
                    /\ UNCHANGED cursor
               ELSE /\ cursor' = [cursor EXCEPT ![r] =
                          NextCall(1, Attempts(ConfiguredModel(OPENAI_MODEL)))]
                    /\ pc' = [pc EXCEPT ![r] = "openai"]
                    /\ UNCHANGED response
    /\ UNCHANGED <<route, transactions, reached, startedAfter, built>>
    /\ UNCHANGED <<OPENAI_MODEL, token_usage, messages, served, body, lastError,
                   calls, result, aiMessage, tokenCount, existing, wrote>>

\* the request parameters of the attempt at loop index j (line 84)
ParamsOf(j, userMessage) ==
    LET attempt == Attempts(ConfiguredModel(OPENAI_MODEL))[j]
    IN  buildParams(attempt.model, userMessage, [nanoLimit |-> attempt.nanoLimit])

\* one pass through the loop body for the call outcome o: try block or catch block
AttemptStep(j, userMessage, o, lastErr) ==
    IF o.threw
    THEN OnError(o.error, Attempts(ConfiguredModel(OPENAI_MODEL))[j], lastErr)
    ELSE OnResponse(o.completion, ParamsOf(j, userMessage), lastErr)

\* the details without the recorded message
FailureDetails_Generic(lastErr) == NO_RESPONSE_FROM_MODEL

\* result.lastError?.message || "no_response_from_model"
FailureDetails(lastErr) ==
    IF lastErr # Null /\ lastErr[1].message # <<>> THEN lastErr[1].message
    ELSE NO_RESPONSE_FROM_MODEL

\* completion.choices[0].message.content.trim() || the apology text (line 164)
AiMessageOf(completion) ==
    IF Candidate(completion) # <<>> THEN Candidate(completion) ELSE EMPTY_AFTER_RETRIES

\* lines 76-136 and 154-167: the attempt at the cursor is issued and resolves
\* with outcome o; the loop body runs; the loop either goes on to the next
\* attempt that issues a call, or callOpenAIWithRetries returns and the handler
\* runs up to its next await: the !completion test of line 157 decides between
\* the model_failure answer and the persistence steps
OpenAICreate(r, o) ==
    LET attempts == Attempts(ConfiguredModel(OPENAI_MODEL))
        step == AttemptStep(cursor[r], body[r].message, o, lastError[r])
        next == NextCall(cursor[r] + 1, attempts)
        log == Append(calls[r], [index |-> cursor[r],
                                 params |-> ParamsOf(cursor[r], body[r].message),
                                 outcome |-> o])
        value == IF step.control = "return" THEN step.value
                 ELSE Exhausted(step.lastError, LocalCompletion(log))
    IN
    /\ pc[r] = "openai"
    /\ calls' = [calls EXCEPT ![r] = log]
    /\ CASE step.control = "continue" /\ next <= Len(attempts) ->
              /\ cursor' = [cursor EXCEPT ![r] = next]
              /\ lastError' = [lastError EXCEPT ![r] = step.lastError]
              /\ UNCHANGED <<result, aiMessage, tokenCount, pc, response>>
         [] step.control = "throw" ->
              \* an error escaping callOpenAIWithRetries reaches the handler's catch
              /\ result' = [result EXCEPT ![r] = [state |-> "threw", error |-> step.error]]
              /\ response' = [response EXCEPT ![r] =
                    [status |-> 500,
                     body |-> [error |-> "server_error", details |-> step.error.message]]]
              /\ pc' = [pc EXCEPT ![r] = "done"]
              /\ UNCHANGED <<cursor, lastError, aiMessage, tokenCount>>
         [] OTHER ->
              \* callOpenAIWithRetries returns value
              /\ cursor' = [cursor EXCEPT ![r] =
                              IF step.control = "continue" THEN next ELSE @]
              /\ lastError' = [lastError EXCEPT ![r] = step.lastError]
              /\ result' = [result EXCEPT ![r] = [state |-> "returned", value |-> value]]
              /\ IF value.completion = Null
                 THEN /\ response' = [response EXCEPT ![r] =
                            [status |-> 500,
                             body |-> [error |-> "model_failure",
                                       details |-> FailureDetails(value.lastError)]]]
                      /\ pc' = [pc EXCEPT ![r] = "done"]
                      /\ UNCHANGED <<aiMessage, tokenCount>>
                 ELSE /\ aiMessage' = [aiMessage EXCEPT ![r] =
                                          AiMessageOf(value.completion[1])]
                      /\ tokenCount' = [tokenCount EXCEPT ![r] =
                                           TotalTokens(value.completion[1])]
                      /\ pc' = [pc EXCEPT ![r] = "insert"]
                      /\ UNCHANGED response
    /\ UNCHANGED <<route, transactions, reached, startedAfter, built>>
    /\ UNCHANGED <<OPENAI_MODEL, token_usage, messages, served, body, usedTokens,
                   existing, wrote>>

\* the insert without its try/catch: a thrown error reaches the handler's catch
MessagesInsert_NoCatch(r, kind) ==
    /\ pc[r] = "insert"
    /\ messages' = IF kind = "ok"
                   THEN messages \o MessageRows(body[r], aiMessage[r], tokenCount[r])
                   ELSE messages
    /\ IF kind = "throw"
       THEN /\ response' = [response EXCEPT ![r] =
                  [status |-> 500, body |-> [error |-> "server_error", details |-> MsgDb]]]
            /\ pc' = [pc EXCEPT ![r] = "done"]
       ELSE /\ pc' = [pc EXCEPT ![r] = "addSelect"]
            /\ UNCHANGED response
    /\ UNCHANGED <<route, transactions, reached, startedAfter, built>>
    /\ UNCHANGED <<OPENAI_MODEL, token_usage, served, body, usedTokens, cursor,
                   lastError, calls, result, aiMessage, tokenCount, existing, wrote>>

\* lines 170-177: the insert into messages resolves; a failure is caught and logged
MessagesInsert(r, kind) ==
    /\ pc[r] = "insert"
    /\ messages' = IF kind = "ok"
                   THEN messages \o MessageRows(body[r], aiMessage[r], tokenCount[r])
                   ELSE messages
    /\ pc' = [pc EXCEPT ![r] = "addSelect"]
    /\ UNCHANGED <<route, transactions, reached, startedAfter, built>>
    /\ UNCHANGED <<OPENAI_MODEL, token_usage, served, body, usedTokens, cursor,
                   lastError, calls, result, aiMessage, tokenCount, existing, wrote,
                   response>>

\* the tokens argument of the addTokens call: tokenCount in the chat handler
\* (line 181), the literal of line 243 in verify-payment
AddTokensArg(r) == IF route[r] = "verify" THEN BONUS_TOKENS ELSE tokenCount[r]

\* the answer of verify-payment's catch block (lines 247-250)
VerifyPaymentError ==
    [status |-> 500, body |-> [error |-> "verify_payment_error", details |-> MsgDb]]

\* the user ids with a stored row at or above the ceiling
AtCeiling(table) ==
    {table[k].user_id : k \in {j \in 1..Len(table) : table[j].total_tokens >= FREE_TOKEN_LIMIT}}

\* addTokens lines 51-55: the select resolves; a thrown error leaves addTokens
\* and is caught at line 182 of the chat handler, at line 247 of verify-payment
AddTokensSelect(r, out) ==
    /\ pc[r] = "addSelect"
    /\ IF out.threw
       THEN /\ IF route[r] = "verify"
               THEN /\ response' = [response EXCEPT ![r] = VerifyPaymentError]
                    /\ pc' = [pc EXCEPT ![r] = "done"]
               ELSE /\ pc' = [pc EXCEPT ![r] = "respond"]
                    /\ UNCHANGED response
            /\ UNCHANGED existing
       ELSE /\ existing' = [existing EXCEPT ![r] = out.data]
            /\ pc' = [pc EXCEPT ![r] = "addWrite"]
            /\ UNCHANGED response
    /\ UNCHANGED <<route, transactions, reached, startedAfter, built>>
    /\ UNCHANGED <<OPENAI_MODEL, token_usage, messages, served, body, usedTokens,
                   cursor, lastError, calls, result, aiMessage, tokenCount, wrote>>

\* addTokens lines 57-67: the update or insert resolves; a failure (thrown, or
\* returned and ignored) writes nothing.  The chat handler catches a thrown
\* error (line 182) and goes on to its answer; verify-payment answers
\* {success: true} (line 246) unless the error was thrown (line 247)
AddTokensWrite(r, kind) ==
    /\ pc[r] = "addWrite"
    /\ IF kind = "ok"
       THEN /\ token_usage' = WriteLedger(token_usage, existing[r], body[r].userId,
                                          AddTokensArg(r))
            /\ wrote' = [wrote EXCEPT ![r] = TRUE]
       ELSE UNCHANGED <<token_usage, wrote>>
    /\ reached' = reached \cup AtCeiling(token_usage')
    /\ IF route[r] = "verify"
       THEN /\ response' = [response EXCEPT ![r] =
                  IF kind = "throw" THEN VerifyPaymentError
                  ELSE [status |-> 200, body |-> [success |-> TRUE]]]
            /\ pc' = [pc EXCEPT ![r] = "done"]
       ELSE /\ pc' = [pc EXCEPT ![r] = "respond"]
            /\ UNCHANGED response
    /\ UNCHANGED <<route, transactions, startedAfter, built>>
    /\ UNCHANGED <<OPENAI_MODEL, messages, served, body, usedTokens, cursor,
                   lastError, calls, result, aiMessage, tokenCount, existing>>

\* lines 187-188: the final getTokens resolves (null on failure); res.json
ChatRespond(r, out) ==
    /\ pc[r] = "respond"
    /\ response' = [response EXCEPT ![r] =
          [status |-> 200,
           body |-> [message |-> aiMessage[r],
                     tokensUsed |-> tokenCount[r],
                     totalTokens |-> IF out.threw THEN Null ELSE Some(getTokens(out))]]]
    /\ pc' = [pc EXCEPT ![r] = "done"]
    /\ UNCHANGED <<route, transactions, reached, startedAfter, built>>
    /\ UNCHANGED <<OPENAI_MODEL, token_usage, messages, served, body, usedTokens,
                   cursor, lastError, calls, result, aiMessage, tokenCount, existing,
                   wrote>>

---------------------------------------------------------------------------
\* The verify-payment handler (lines 230-251)

\* process.env.RAZORPAY_KEY_SECRET
RAZORPAY_KEY_SECRET == "rzp_key_secret"

\* `${razorpay_order_id}|${razorpay_payment_id}`
SignedText(orderId, paymentId) == orderId \o <<"|">> \o paymentId

\* crypto.createHmac("sha256", key).update(text).digest("hex"): the digest is
\* determined by key and text, and differs when either differs
HmacSha256(key, text) == [hmac |-> "sha256", key |-> key, text |-> text]

\* the signature test accepting every request
SignatureMismatch_Never(b) == FALSE

\* digest !== razorpay_signature (lines 234-236)
SignatureMismatch(b) ==
    HmacSha256(RAZORPAY_KEY_SECRET,
               SignedText(b.razorpay_order_id, b.razorpay_payment_id))
        # b.razorpay_signature

\* update({status: "paid", razorpay_payment_id}).eq("razorpay_order_id", ..)
MarkPaid(table, b) ==
    [k \in 1..Len(table) |->
        IF table[k].razorpay_order_id = b.razorpay_order_id
        THEN [table[k] EXCEPT !.status = "paid",
                              !.razorpay_payment_id = Some(b.razorpay_payment_id)]
        ELSE table[k]]

\* lines 231-241: a request arrives; the signature test; the update of the
\* transaction is issued
VerifyRequest(r, b, limit) ==
    /\ pc[r] \in {"idle", "done"}
    /\ served < limit
    /\ served' = served + 1
    /\ route' = [route EXCEPT ![r] = "verify"]
    /\ startedAfter' = [startedAfter EXCEPT ![r] = b.userId \in reached]
    /\ body' = [body EXCEPT ![r] = b]
    /\ usedTokens' = [usedTokens EXCEPT ![r] = 0]
    /\ cursor' = [cursor EXCEPT ![r] = 0]
    /\ lastError' = [lastError EXCEPT ![r] = Null]
    /\ calls' = [calls EXCEPT ![r] = <<>>]
    /\ result' = [result EXCEPT ![r] = NoResult]
    /\ aiMessage' = [aiMessage EXCEPT ![r] = <<>>]
    /\ tokenCount' = [tokenCount EXCEPT ![r] = 0]
    /\ existing' = [existing EXCEPT ![r] = Null]
    /\ wrote' = [wrote EXCEPT ![r] = FALSE]
    /\ IF SignatureMismatch(b)
       THEN /\ response' = [response EXCEPT ![r] =
                              [status |-> 400, body |-> [error |-> "invalid_signature"]]]
            /\ pc' = [pc EXCEPT ![r] = "done"]
       ELSE /\ response' = [response EXCEPT ![r] = NoResponse]
            /\ pc' = [pc EXCEPT ![r] = "txUpdate"]
    /\ UNCHANGED <<OPENAI_MODEL, token_usage, messages, transactions, reached, built>>

\* line 241: the update of transactions resolves; a returned error is ignored,
\* a thrown one reaches the catch block; then addTokens is called (line 243)
VerifyTxUpdate(r, kind) ==
    /\ pc[r] = "txUpdate"
    /\ transactions' = IF kind = "ok" THEN MarkPaid(transactions, body[r])
                       ELSE transactions
    /\ IF kind = "throw"
       THEN /\ response' = [response EXCEPT ![r] = VerifyPaymentError]
            /\ pc' = [pc EXCEPT ![r] = "done"]
       ELSE /\ pc' = [pc EXCEPT ![r] = "addSelect"]
            /\ UNCHANGED response
    /\ UNCHANGED <<OPENAI_MODEL, token_usage, messages, served, body, usedTokens,
                   cursor, lastError, calls, result, aiMessage, tokenCount, existing,
                   wrote, route, reached, startedAfter, built>>

---------------------------------------------------------------------------
\* Inputs

\* values of OPENAI_MODEL
Models == {<<>>, ModelNanoUpper, ModelNanoDated, ModelGpt5}

\* request bodies
Bodies == {[userId |-> u, sessionId |-> "s1", message |-> m] :
              u \in {"", "u1"}, m \in {"", "hello"}}

CompletionOf(content, n) ==
    [choices |-> <<[message |-> [content |-> content], finish_reason |-> "stop"]>>,
     usage |-> [total_tokens |-> n]]

NoChoices(n) == [choices |-> <<>>, usage |-> [total_tokens |-> n]]

ErrorMessages ==
    {MsgUnsupportedParameter, MsgUnsupportedValue, MsgInvalidModel, MsgUnknownModel,
     MsgRateLimit}

\* outcomes of one openai.chat.completions.create call
Outcomes ==
    {[threw |-> TRUE, error |-> Err(m)] : m \in ErrorMessages}
    \cup {[threw |-> FALSE, completion |-> CompletionOf(c, 0)] : c \in {<<>>, TextBlank}}
    \cup {[threw |-> FALSE, completion |-> NoChoices(0)]}
    \cup {[threw |-> FALSE, completion |-> CompletionOf(TextHi, 400)],
          [threw |-> FALSE, completion |-> CompletionOf(TextOk, 0)]}

\* outcomes of a database call
DbKinds == {"ok", "error", "throw"}

TokenRow(id, userId, total) == [id |-> id, user_id |-> userId, total_tokens |-> total]

\* ledgers the concurrent requests may find
ConcLedgers ==
    {<<>>,
     <<TokenRow(1, "u0", FREE_TOKEN_LIMIT), TokenRow(2, "u1", FREE_TOKEN_LIMIT - 400)>>}

\* ledgers a request may find
Ledgers == ConcLedgers \cup {<<TokenRow(1, "u1", FREE_TOKEN_LIMIT)>>}

\* order and payment ids
OrderA == <<"o", "1">>

OrderB == <<"o", "2">>

PaymentA == <<"p", "1">>

\* the row create-order inserts (lines 212-220)
TxRow(orderId, userId) ==
    [user_id |-> userId, razorpay_order_id |-> orderId, razorpay_payment_id |-> Null,
     amount |-> 9900, currency |-> "INR", status |-> "created"]

\* transactions tables a verify-payment request may find
Orders == {<<>>, <<TxRow(OrderA, "u1")>>}

\* the signature Razorpay issues for an order and a payment
Signed(orderId, paymentId) ==
    HmacSha256(RAZORPAY_KEY_SECRET, SignedText(orderId, paymentId))

\* request bodies of verify-payment: the signature is the one of the order, the
\* one of another order, one made with another key, or missing
VerifyBodies ==
    {[razorpay_order_id |-> o, razorpay_payment_id |-> PaymentA,
      razorpay_signature |-> sig, userId |-> "u1"] :
        o \in {OrderA, OrderB},
        sig \in {Signed(OrderA, PaymentA), Signed(OrderB, PaymentA),
                 HmacSha256("other_secret", SignedText(OrderA, PaymentA)), Null}}

---------------------------------------------------------------------------
\* Specifications

InitWith(slots, models, ledgers, orders) ==
    /\ OPENAI_MODEL \in models
    /\ token_usage \in ledgers
    /\ messages = <<>>
    /\ served = 0
    /\ pc = [r \in slots |-> "idle"]
    /\ body = [r \in slots |-> NoBody]
    /\ usedTokens = [r \in slots |-> 0]
    /\ cursor = [r \in slots |-> 0]
    /\ lastError = [r \in slots |-> Null]
    /\ calls = [r \in slots |-> <<>>]
    /\ result = [r \in slots |-> NoResult]
    /\ aiMessage = [r \in slots |-> <<>>]
    /\ tokenCount = [r \in slots |-> 0]
    /\ existing = [r \in slots |-> Null]
    /\ wrote = [r \in slots |-> FALSE]
    /\ response = [r \in slots |-> NoResponse]
    /\ route = [r \in slots |-> "none"]
    /\ transactions \in orders
    /\ reached = AtCeiling(token_usage)
    /\ startedAfter = [r \in slots |-> FALSE]
    /\ built = NoBuilt

\* one request at a time, every input
Init == InitWith({1}, Models, Ledgers, {<<>>})

Next ==
    \/ \E r \in Slots, b \in Bodies : ChatRequest(r, b, MaxRequests)
    \/ \E r \in Slots : \E out \in SelectOutcomes(token_usage, body[r].userId, DbKinds) :
          ChatGetTokens(r, out)
    \/ \E r \in Slots, o \in Outcomes : OpenAICreate(r, o)
    \/ \E r \in Slots, kind \in DbKinds : MessagesInsert(r, kind)
    \/ \E r \in Slots : \E out \in SelectOutcomes(token_usage, body[r].userId, DbKinds) :
          AddTokensSelect(r, out)
    \/ \E r \in Slots, kind \in DbKinds : AddTokensWrite(r, kind)
    \/ \E r \in Slots : \E out \in SelectOutcomes(token_usage, body[r].userId, DbKinds) :
          ChatRespond(r, out)

Spec == Init /\ [][Next]_vars

\* concurrent requests of one identity, few inputs
ConcBodies == {[userId |-> "u1", sessionId |-> "s1", message |-> "hello"]}

ConcOutcomes == {[threw |-> FALSE, completion |-> CompletionOf(TextHi, 400)]}

\* database calls succeed
ConcKinds == {"ok"}

\* the paid request of the concurrent runs
ConcVerifyBodies ==
    {[razorpay_order_id |-> OrderA, razorpay_payment_id |-> PaymentA,
      razorpay_signature |-> Signed(OrderA, PaymentA), userId |-> "u1"]}

InitConc == InitWith(1..MaxConcurrent, {ModelGpt5}, ConcLedgers, {<<TxRow(OrderA, "u1")>>})

NextConc ==
    \/ \E r \in Slots, b \in ConcBodies : ChatRequest(r, b, MaxConcRequests)
    \/ \E r \in Slots : \E out \in SelectOutcomes(token_usage, body[r].userId, ConcKinds) :
          ChatGetTokens(r, out)
    \/ \E r \in Slots, o \in ConcOutcomes : OpenAICreate(r, o)
    \/ \E r \in Slots, kind \in ConcKinds : MessagesInsert(r, kind)
    \/ \E r \in Slots : \E out \in SelectOutcomes(token_usage, body[r].userId, ConcKinds) :
          AddTokensSelect(r, out)
    \/ \E r \in Slots, kind \in ConcKinds : AddTokensWrite(r, kind)
    \/ \E r \in Slots : \E out \in SelectOutcomes(token_usage, body[r].userId, ConcKinds) :
          ChatRespond(r, out)
    \/ \E r \in Slots, b \in ConcVerifyBodies : VerifyRequest(r, b, MaxConcRequests)
    \/ \E r \in Slots, kind \in ConcKinds : VerifyTxUpdate(r, kind)

SpecConc == InitConc /\ [][NextConc]_vars

\* verify-payment requests one at a time, every input
InitPay == InitWith({1}, {<<>>}, ConcLedgers, Orders)

NextPay ==
    \/ \E r \in Slots, b \in VerifyBodies : VerifyRequest(r, b, MaxPayRequests)
    \/ \E r \in Slots, kind \in DbKinds : VerifyTxUpdate(r, kind)
    \/ \E r \in Slots : \E out \in SelectOutcomes(token_usage, body[r].userId, DbKinds) :
          AddTokensSelect(r, out)
    \/ \E r \in Slots, kind \in DbKinds : AddTokensWrite(r, kind)

SpecPay == InitPay /\ [][NextPay]_vars

\* buildParams on its own, over model identifiers, messages and options
ParamModels == Models \cup {GPT_4O_MINI, GPT_5_NANO}

ParamMessages == {"", "hi", "hello", "namaste"}

\* the opts argument: absent (the default {}) or carrying nanoLimit
ParamOpts == {<<>>} \cup {[nanoLimit |-> n] : n \in {0, NANO_LIMIT_RETRY, NANO_LIMIT_PRIMARY, MAX_TOKENS}}

\* lines 20-54: one application of buildParams
ApplyBuildParams(model, userMessage, opts) ==
    /\ built' = [applied |-> TRUE, model |-> model, userMessage |-> userMessage,
                 opts |-> opts, params |-> buildParams(model, userMessage, opts)]
    /\ UNCHANGED <<OPENAI_MODEL, token_usage, messages, served, pc, body, usedTokens,
                   cursor, lastError, calls, result, aiMessage, tokenCount, existing,
                   wrote, response, route, transactions, reached, startedAfter>>

InitParams == InitWith({1}, {<<>>}, {<<>>}, {<<>>})

NextParams ==
    \E model \in ParamModels, userMessage \in ParamMessages, opts \in ParamOpts :
        ApplyBuildParams(model, userMessage, opts)

SpecParams == InitParams /\ [][NextParams]_vars

---------------------------------------------------------------------------
\* Vocabulary of the properties, stated without the operators of the model

\* the configured identifiers of Models that belong to the gpt-5-nano family
NanoFamily == {ModelNanoUpper, ModelNanoDated}

\* the configured model of the run
Configured == IF OPENAI_MODEL = <<>> THEN GPT_4O_MINI ELSE OPENAI_MODEL

\* the models of the attempts that may issue a call, in order
PlanModels ==
    IF OPENAI_MODEL \in NanoFamily
    THEN <<Configured, Configured, GPT_4O_MINI>>
    ELSE <<Configured, GPT_4O_MINI>>

PlanLength == Len(PlanModels)

\* the call resolved with text that is not empty and not only whitespace
IsText(o) ==
    /\ ~o.threw
    /\ o.completion.choices # <<>>
    /\ \E k \in 1..Len(o.completion.choices[1].message.content) :
          o.completion.choices[1].message.content[k] # " "

\* the call resolved without text
IsEmpty(o) == ~o.threw /\ ~IsText(o)

\* the call threw or resolved without text
IsSoftFailure(o) == ~IsText(o)

\* the condition a soft failure leaves behind
ConditionOf(o) == IF o.threw THEN Some(o.error) ELSE Some(Err(EMPTY_RESPONSE))

\* callOpenAIWithRetries has returned or thrown
Finished(r) == result[r].state # "none"

Succeeded(r) == result[r].state = "returned" /\ result[r].value.completion # Null

Failed(r) == result[r].state = "returned" /\ result[r].value.completion = Null

LastCall(r) == calls[r][Len(calls[r])]

---------------------------------------------------------------------------
\* C1: one run of callOpenAIWithRetries issues at least one and at most
\* plan-length Completion Client calls (3 for a gpt-5-nano configured model,
\* 2 otherwise), and no call follows a call that returned non-empty text.
C1_CallCount ==
    \A r \in Slots :
        /\ Len(calls[r]) <= PlanLength
        /\ Finished(r) => Len(calls[r]) >= 1
        /\ \A k \in 1..(Len(calls[r]) - 1) : IsSoftFailure(calls[r][k].outcome)

\* a nano run that used the whole plan and got text from the last attempt
C1_Witness ==
    \E r \in Slots :
        /\ OPENAI_MODEL \in NanoFamily
        /\ Succeeded(r)
        /\ Len(calls[r]) = 3
        /\ IsText(LastCall(r).outcome)

\* C4: when the k-th call is the first to return non-empty text, the run returns
\* that call's completion with modelUsed = the k-th plan model after exactly k
\* calls; with a nano configured model, soft failures on calls 1 and 2 and text
\* on call 3 give modelUsed = gpt-4o-mini after exactly 3 calls.
C4_FirstTextWins ==
    \A r \in Slots :
        (calls[r] # <<>> /\ IsText(LastCall(r).outcome)) =>
            /\ result[r].state = "returned"
            /\ result[r].value.completion = Some(LastCall(r).outcome.completion)
            /\ result[r].value.modelUsed = Some(PlanModels[Len(calls[r])])
            /\ \A k \in 1..(Len(calls[r]) - 1) : IsSoftFailure(calls[r][k].outcome)
            /\ (OPENAI_MODEL \in NanoFamily /\ Len(calls[r]) = 3) =>
                   result[r].value.modelUsed = Some(GPT_4O_MINI)

\* empty text on attempts 1 and 2, text on attempt 3, nano configured model
C4_Witness ==
    \E r \in Slots :
        /\ OPENAI_MODEL \in NanoFamily
        /\ Len(calls[r]) = 3
        /\ IsEmpty(calls[r][1].outcome)
        /\ IsEmpty(calls[r][2].outcome)
        /\ IsText(calls[r][3].outcome)
        /\ result[r].state = "returned"
        /\ result[r].value.modelUsed = Some(GPT_4O_MINI)

C5_WitnessFallback ==
    \E r \in Slots :
        /\ Len(calls[r]) = PlanLength
        /\ LastCall(r).outcome.threw
        /\ LastCall(r).outcome.error.message = MsgInvalidModel
        /\ LastCall(r).params.model = GPT_4O_MINI
        /\ Failed(r)

\* C6: when every call soft-fails, the run returns completion = null and
\* modelUsed = null, and lastError is the condition of the LAST call made (its
\* thrown error, or empty_response), never that of an earlier call.
C6_LastErrorIsLast ==
    \A r \in Slots :
        (Finished(r) /\ \A k \in 1..Len(calls[r]) : IsSoftFailure(calls[r][k].outcome)) =>
            /\ result[r].state = "returned"
            /\ result[r].value =
                  [completion |-> Null, modelUsed |-> Null,
                   lastError |-> ConditionOf(LastCall(r).outcome)]
            /\ Len(calls[r]) = PlanLength

\* exhausted run whose first call threw and whose last call returned empty text
C6_Witness ==
    \E r \in Slots :
        /\ Failed(r)
        /\ calls[r][1].outcome.threw
        /\ IsEmpty(LastCall(r).outcome)
        /\ result[r].value.lastError = Some(Err(EMPTY_RESPONSE))

\* exhausted run whose first call returned empty text and whose last call threw
C6_WitnessThrowLast ==
    \E r \in Slots :
        /\ Failed(r)
        /\ IsEmpty(calls[r][1].outcome)
        /\ LastCall(r).outcome.threw
        /\ result[r].value.lastError = Some(LastCall(r).outcome.error)

\* C7: when every call returns empty or whitespace-only text, the run ends in
\* a failure whose lastError message is "empty_response" after exactly
\* plan-length calls (3 for a nano configured model, 2 otherwise).
C7_AlwaysEmpty ==
    \A r \in Slots :
        (calls[r] # <<>> /\ \A k \in 1..Len(calls[r]) : IsEmpty(calls[r][k].outcome)) =>
            IF Len(calls[r]) < PlanLength
            THEN pc[r] = "openai" /\ ~Finished(r)
            ELSE /\ Len(calls[r]) = PlanLength
                 /\ Failed(r)
                 /\ result[r].value.lastError # Null
                 /\ result[r].value.lastError[1].message = EMPTY_RESPONSE

\* three empty calls, one of them whitespace-only, nano configured model
C7_Witness ==
    \E r \in Slots :
        /\ OPENAI_MODEL \in NanoFamily
        /\ Len(calls[r]) = 3
        /\ \A k \in 1..3 : IsEmpty(calls[r][k].outcome)
        /\ \E k \in 1..3 :
              /\ calls[r][k].outcome.completion.choices # <<>>
              /\ calls[r][k].outcome.completion.choices[1].message.content = TextBlank
        /\ Failed(r)

\* two empty calls, configured model outside the nano family
C7_WitnessShortPlan ==
    \E r \in Slots :
        /\ OPENAI_MODEL \notin NanoFamily
        /\ Len(calls[r]) = 2
        /\ \A k \in 1..2 : IsEmpty(calls[r][k].outcome)
        /\ Failed(r)

\* the loop indices (primary 1, nano-retry 2, fallback 3) of the plan entries
PlanIndices == IF OPENAI_MODEL \in NanoFamily THEN <<1, 2, 3>> ELSE <<1, 3>>

\* C8: the calls that can be issued are, in order, primary (configured model,
\* limit 150), nano-retry (configured model, limit 80), fallback (gpt-4o-mini)
\* when the configured identifier contains "gpt-5-nano" in any letter case,
\* and primary, fallback otherwise; in the second case the nano-retry entry
\* issues no call and leaves lastError as the primary attempt set it.
C8_Plan ==
    \A r \in Slots :
        /\ \A k \in 1..Len(calls[r]) :
              /\ k <= PlanLength
              /\ calls[r][k].index = PlanIndices[k]
              /\ calls[r][k].params.model = PlanModels[k]
              /\ (OPENAI_MODEL \in NanoFamily /\ k = 1) =>
                     calls[r][k].params.max_completion_tokens = 150
              /\ (OPENAI_MODEL \in NanoFamily /\ k = 2) =>
                     calls[r][k].params.max_completion_tokens = 80
        /\ (OPENAI_MODEL \notin NanoFamily /\ pc[r] = "openai" /\ Len(calls[r]) = 1) =>
               /\ cursor[r] = 3
               /\ lastError[r] = ConditionOf(calls[r][1].outcome)

\* a nano identifier in upper case: the narrow retry was issued with limit 80
C8_Witness ==
    \E r \in Slots :
        /\ OPENAI_MODEL = ModelNanoUpper
        /\ Len(calls[r]) = 3
        /\ calls[r][2].params.model = ModelNanoUpper
        /\ calls[r][2].params.max_completion_tokens = 80
        /\ calls[r][3].params.model = GPT_4O_MINI

\* a configured model outside the family: the second call is the fallback
C8_WitnessShortPlan ==
    \E r \in Slots :
        /\ OPENAI_MODEL = ModelGpt5
        /\ Len(calls[r]) = 2
        /\ calls[r][1].outcome.threw
        /\ calls[r][2].index = 3
        /\ calls[r][2].params.model = GPT_4O_MINI

\* C9: callOpenAIWithRetries never throws because of a Completion Client
\* failure: whatever the calls do, it ends by returning {completion, modelUsed}
\* with non-empty text or {completion: null, modelUsed: null, lastError}, and
\* it has ended once the last plan entry was called.
C9_NeverThrows ==
    \A r \in Slots :
        /\ result[r].state # "threw"
        /\ (pc[r] = "openai" /\ calls[r] # <<>>) =>
               /\ Len(calls[r]) < PlanLength
               /\ IsSoftFailure(LastCall(r).outcome)
        /\ Len(calls[r]) = PlanLength => result[r].state = "returned"
        /\ result[r].state = "returned" =>
               \/ /\ DOMAIN result[r].value = {"completion", "modelUsed"}
                  /\ result[r].value.completion # Null
                  /\ IsText([threw |-> FALSE, completion |-> result[r].value.completion[1]])
                  /\ result[r].value.modelUsed # Null
               \/ /\ DOMAIN result[r].value = {"completion", "modelUsed", "lastError"}
                  /\ result[r].value.completion = Null
                  /\ result[r].value.modelUsed = Null
                  /\ result[r].value.lastError # Null

\* every call of a full plan threw, the last one a rate-limit error, and the
\* run returned the failure value
C9_Witness ==
    \E r \in Slots :
        /\ Len(calls[r]) = 3
        /\ \A k \in 1..3 : calls[r][k].outcome.threw
        /\ calls[r][3].outcome.error.message = MsgRateLimit
        /\ Failed(r)
        /\ response[r].status = 500
        /\ response[r].body.error = "model_failure"

\* the stored total of the ledger row with the given id
StoredTotal(table, id) == table[CHOOSE k \in 1..Len(table) : table[k].id = id].total_tokens

\* C2: whenever the quota read of a chat request returns a value greater than
\* or equal to FREE_TOKEN_LIMIT (exactly equal included), the request is
\* answered 402 {error: quota_exhausted} and issues no Completion Client call.
C2_QuotaBlocks ==
    \A r \in Slots :
        usedTokens[r] >= FREE_TOKEN_LIMIT =>
            /\ pc[r] = "done"
            /\ response[r] = [status |-> 402, body |-> [error |-> "quota_exhausted"]]
            /\ calls[r] = <<>>
            /\ result[r].state = "none"

\* a quota read of exactly the ceiling, reached by an earlier request's update
C2_Witness ==
    \E r \in Slots :
        /\ usedTokens[r] = FREE_TOKEN_LIMIT
        /\ response[r].status = 402
        /\ served >= 2

\* a quota read above the ceiling
C2_WitnessAbove ==
    \E r \in Slots :
        /\ usedTokens[r] > FREE_TOKEN_LIMIT
        /\ response[r].status = 402

\* the tokens the addTokens call of slot r adds: the cost of the answer for a
\* chat request, the 200000 of a verified payment
Delta(r) == IF route[r] = "verify" THEN 200000 ELSE tokenCount[r]

\* C3: addTokens is a non-atomic read-then-write: when a call writes after
\* another call has raised the row it read, the stored total becomes the total
\* it read plus its own delta, so the other call's delta is lost and the
\* stored total under-counts cumulative usage.
C3_LostUpdate ==
    [][\A r \in Slots :
          (/\ pc[r] = "addWrite"
           /\ wrote'[r]
           /\ existing[r] # Null
           /\ Len(existing[r][1]) > 0
           /\ StoredTotal(token_usage, existing[r][1][1].id)
                  > existing[r][1][1].total_tokens) =>
              /\ StoredTotal(token_usage', existing[r][1][1].id)
                     = existing[r][1][1].total_tokens + Delta(r)
              /\ StoredTotal(token_usage', existing[r][1][1].id)
                     < StoredTotal(token_usage, existing[r][1][1].id) + Delta(r)]_vars

\* two requests read the same row at the same total, both wrote a positive
\* delta, and the row holds the prior total plus only one of the deltas
C3_Witness ==
    \E r1, r2 \in Slots :
        /\ r1 # r2
        /\ wrote[r1] /\ wrote[r2]
        /\ existing[r1] # Null /\ Len(existing[r1][1]) > 0
        /\ existing[r2] = existing[r1]
        /\ tokenCount[r1] > 0 /\ tokenCount[r2] > 0
        /\ StoredTotal(token_usage, existing[r1][1][1].id)
               = existing[r1][1][1].total_tokens + tokenCount[r1]
        /\ StoredTotal(token_usage, existing[r1][1][1].id)
               < existing[r1][1][1].total_tokens + tokenCount[r1] + tokenCount[r2]

\* the text of a completion content with the surrounding blanks removed
TrimmedText(content) == IF content = TextHi THEN <<"h", "i">> ELSE content

\* C10: once callOpenAIWithRetries has produced a non-empty answer, a failure
\* of the messages insert, of addTokens or of the final getTokens does not
\* prevent the success response: the handler goes on and answers
\* {message, tokensUsed, totalTokens} with the model's text, never server_error.
C10_PersistenceSwallowed ==
    \A r \in Slots :
        Succeeded(r) =>
            \/ /\ pc[r] \in {"insert", "addSelect", "addWrite", "respond"}
               /\ response[r] = NoResponse
            \/ /\ pc[r] = "done"
               /\ response[r].status = 200
               /\ DOMAIN response[r].body = {"message", "tokensUsed", "totalTokens"}
               /\ response[r].body.message =
                      TrimmedText(LastCall(r).outcome.completion.choices[1].message.content)
               /\ response[r].body.tokensUsed =
                      LastCall(r).outcome.completion.usage.total_tokens

\* a success response although the insert, the ledger update and the final
\* read all failed
C10_Witness ==
    \E r \in Slots :
        /\ Succeeded(r)
        /\ pc[r] = "done"
        /\ response[r].status = 200
        /\ response[r].body.message = <<"h", "i">>
        /\ response[r].body.totalTokens = Null
        /\ messages = <<>>
        /\ ~wrote[r]

---------------------------------------------------------------------------
\* the three error codes of the failure object
FailureCodes == {"quota_exhausted", "model_failure", "server_error"}

\* the chat request of slot r was answered without success
AnsweredFailure(r) == route[r] = "chat" /\ response[r].status \notin {0, 200}

\* the request body of slot r lacks the user id or the message
LacksField(r) == body[r].userId = "" \/ body[r].message = ""

\* C11 as stated: every non-success response of the chat endpoint, a request
\* with userId or message missing included, carries an error field that is
\* one of quota_exhausted, model_failure, server_error.
C11_ThreeCodes ==
    \A r \in Slots :
        AnsweredFailure(r) => response[r].body.error \in FailureCodes

\* C11 amended: a chat request with userId or message missing is answered
\* 400 with error = "Missing fields" and nothing else; every other non-success
\* response carries one of quota_exhausted, model_failure, server_error.
C11_FailureCodes ==
    \A r \in Slots :
        /\ (route[r] = "chat" /\ LacksField(r)) =>
              response[r] = [status |-> 400, body |-> [error |-> "Missing fields"]]
        /\ (AnsweredFailure(r) /\ ~LacksField(r)) =>
              response[r].body.error \in FailureCodes

C11_Witness ==
    \E r \in Slots :
        /\ AnsweredFailure(r)
        /\ body[r].userId = "u1"
        /\ body[r].message = ""
        /\ response[r].status = 400

C11_WitnessCodes ==
    \E r \in Slots :
        AnsweredFailure(r) /\ ~LacksField(r) /\ response[r].body.error = "model_failure"

---------------------------------------------------------------------------
\* C12: when callOpenAIWithRetries exhausts the plan, the chat handler answers
\* 500 with error = model_failure and details = the message of the condition
\* the last call left behind (the text of its error, or "empty_response"),
\* not server_error and not the message of an earlier call.
C12_ModelFailureDetails ==
    \A r \in Slots :
        Failed(r) =>
            /\ pc[r] = "done"
            /\ response[r] =
                 [status |-> 500,
                  body |-> [error |-> "model_failure",
                            details |-> ConditionOf(LastCall(r).outcome)[1].message]]

\* exhausted with two different conditions: the first call threw a rate
\* limit, the last one resolved empty
C12_Witness ==
    \E r \in Slots :
        /\ Failed(r)
        /\ calls[r][1].outcome.threw
        /\ calls[r][1].outcome.error.message = MsgRateLimit
        /\ IsEmpty(LastCall(r).outcome)
        /\ response[r].body.details = EMPTY_RESPONSE

\* exhausted with a thrown error last, after an empty response
C12_WitnessThrowLast ==
    \E r \in Slots :
        /\ Failed(r)
        /\ IsEmpty(calls[r][1].outcome)
        /\ LastCall(r).outcome.threw
        /\ response[r].body.details = MsgUnsupportedValue

---------------------------------------------------------------------------
\* the step is a step of the request of slot r
Stepper(r) == pc'[r] # pc[r] \/ calls'[r] # calls[r]

\* the chat request of slot r ended in Missing fields, quota_exhausted or
\* model_failure
EndedEarly(r) ==
    /\ route[r] = "chat"
    /\ \/ response[r].status \in {400, 402}
       \/ response[r].status = 500 /\ response[r].body.error = "model_failure"

\* C13: a chat request writes to messages and to token_usage only after one of
\* its Completion Client calls returned non-empty text; a request that ends in
\* Missing fields, quota_exhausted or model_failure got no such text, so it
\* inserts nothing into messages, makes no ledger write and leaves both stores
\* as they were.
C13_WriteAfterSuccess ==
    /\ [](\A r \in Slots :
            EndedEarly(r) =>
                /\ ~wrote[r]
                /\ \A k \in 1..Len(calls[r]) : ~IsText(calls[r][k].outcome))
    /\ [][\A r \in Slots :
            /\ (Stepper(r) /\ route[r] = "chat"
                  /\ (messages' # messages \/ token_usage' # token_usage)) =>
                  (calls[r] # <<>> /\ IsText(LastCall(r).outcome))
            /\ (Stepper(r) /\ EndedEarly(r)') =>
                  (messages' = messages /\ token_usage' = token_usage)]_vars

\* a request was refused at the quota gate of a stored ledger
C13_Witness ==
    \E r \in Slots :
        /\ EndedEarly(r)
        /\ response[r].status = 402
        /\ token_usage # <<>>
        /\ messages = <<>>

\* a request ended in model_failure after calls that resolved empty
C13_WitnessModelFailure ==
    \E r \in Slots :
        /\ EndedEarly(r)
        /\ response[r].status = 500
        /\ \E k \in 1..Len(calls[r]) : IsEmpty(calls[r][k].outcome)
        /\ messages = <<>>

---------------------------------------------------------------------------
\* the fields of a request built with the general-purpose parameters
GeneralFields == {"model", "messages", "max_tokens", "temperature"}

\* C14: for every configured model identifier the last attempt of the plan is
\* the fallback: the call that reaches plan-length is made with the model
\* gpt-4o-mini and the general-purpose parameters (max_tokens = 400 and a
\* temperature, no max_completion_tokens, whatever nanoLimit the attempt
\* carries), and a run in which every earlier call soft-fails always makes it,
\* so a run ends either with text or after the fallback call.
C14_Fallback ==
    \A r \in Slots :
        /\ \A k \in 1..Len(calls[r]) :
              k = PlanLength =>
                  /\ calls[r][k].index = 3
                  /\ calls[r][k].params.model = GPT_4O_MINI
                  /\ DOMAIN calls[r][k].params = GeneralFields
                  /\ calls[r][k].params.max_tokens = 400
        /\ (pc[r] = "openai" /\ Len(calls[r]) = PlanLength - 1) => cursor[r] = 3
        /\ Finished(r) => (IsText(LastCall(r).outcome) \/ Len(calls[r]) = PlanLength)

\* a nano-family model soft-failed twice and the fallback was called
C14_Witness ==
    \E r \in Slots :
        /\ OPENAI_MODEL \in NanoFamily
        /\ Len(calls[r]) = 3
        /\ IsSoftFailure(calls[r][1].outcome)
        /\ IsSoftFailure(calls[r][2].outcome)
        /\ calls[r][2].params.max_completion_tokens = 80
        /\ calls[r][3].params.model = GPT_4O_MINI

---------------------------------------------------------------------------
\* the identifiers of ParamModels that contain gpt-5-nano in some case
NanoIds == {GPT_5_NANO, ModelNanoUpper, ModelNanoDated}

\* a system message followed by one user message with the given text
SystemThenUser(msgs, text) ==
    /\ Len(msgs) = 2
    /\ msgs[1].role = "system"
    /\ msgs[2] = [role |-> "user", content |-> text]

\* C15: buildParams(model, message, opts) gives, for a model identifier that
\* contains gpt-5-nano in any case, a system message and a single user message
\* with the given text, max_completion_tokens = opts.nanoLimit (150 when the
\* option is absent), and neither temperature nor max_tokens; for any other
\* identifier a system message and a single user message, max_tokens = 400, a
\* temperature, and no max_completion_tokens.
C15_BuildParams ==
    built.applied =>
        /\ built.params.model = built.model
        /\ SystemThenUser(built.params.messages, built.userMessage)
        /\ IF built.model \in NanoIds
           THEN /\ DOMAIN built.params = {"model", "messages", "max_completion_tokens"}
                /\ built.params.max_completion_tokens =
                      IF built.opts = <<>> THEN 150 ELSE built.opts.nanoLimit
           ELSE /\ DOMAIN built.params = GeneralFields
                /\ built.params.max_tokens = 400

\* a nano identifier in upper case, no option given: the limit is 150
C15_Witness ==
    /\ built.applied
    /\ built.model = ModelNanoUpper
    /\ built.opts = <<>>
    /\ built.params.max_completion_tokens = 150

\* a nano identifier with the limit 0
C15_WitnessZero ==
    /\ built.applied
    /\ built.model \in NanoIds
    /\ built.opts # <<>>
    /\ built.opts.nanoLimit = 0

\* another identifier, whatever the option
C15_WitnessGeneral ==
    /\ built.applied
    /\ built.model = ModelGpt5
    /\ built.opts # <<>>
    /\ "temperature" \in DOMAIN built.params

---------------------------------------------------------------------------
\* the call threw one of the errors the catch block singles out: invalid or
\* unknown model on a model other than gpt-4o-mini, or unsupported parameter
\* or value
SingledOut(c) ==
    /\ c.outcome.threw
    /\ \/ /\ c.outcome.error.message \in {MsgInvalidModel, MsgUnknownModel}
          /\ c.params.model # GPT_4O_MINI
       \/ c.outcome.error.message \in {MsgUnsupportedParameter, MsgUnsupportedValue}

\* C18: when a call fails with "invalid model" or "unknown model" on a model
\* other than gpt-4o-mini, or with "unsupported parameter" or "unsupported
\* value", the very next Completion Client call is made with the model
\* gpt-4o-mini.
C18_NextIsFallback ==
    \A r \in Slots :
        \A k \in 1..Len(calls[r]) :
            (SingledOut(calls[r][k]) /\ k < Len(calls[r])) =>
                calls[r][k + 1].params.model = GPT_4O_MINI

---------------------------------------------------------------------------
\* C16: under any interleaving of concurrent chat requests and ledger updates
\* of one identity, once the stored ledger total of the identity has reached
\* or exceeded the ceiling, every chat request of that identity that starts
\* afterwards is rejected with quota_exhausted and makes no Completion Client
\* call.
C16_CeilingHolds ==
    \A r \in Slots :
        (route[r] = "chat" /\ startedAfter[r]) =>
            /\ calls[r] = <<>>
            /\ pc[r] \in {"getTokens", "done"}
            /\ pc[r] = "done" =>
                  response[r] = [status |-> 402, body |-> [error |-> "quota_exhausted"]]

---------------------------------------------------------------------------
\* the token_usage rows of a user
RowsOf(userId) == {k \in 1..Len(token_usage) : token_usage[k].user_id = userId}

\* C20: after any interleaving of addTokens calls, from chat requests and from
\* verify-payment, token_usage holds at most one row per user_id, so that the
\* single row getTokens reads carries the user's whole cumulative total.
C20_OneRowPerUser ==
    \A k, l \in 1..Len(token_usage) :
        token_usage[k].user_id = token_usage[l].user_id => k = l

---------------------------------------------------------------------------
\* C17: with the ceiling at its default 100000, a user whose chat requests
\* were admitted before a successful verify-payment (the total the payment
\* read was below the ceiling) has the next chat request admitted: a chat
\* request that starts after the payment was added and whose quota read
\* returns the total the payment left, nothing else having touched the ledger
\* in between, is not answered quota_exhausted.
C17_PaidUserAdmitted ==
    \A p, c \in Slots :
        (/\ route[p] = "verify"
         /\ response[p] = [status |-> 200, body |-> [success |-> TRUE]]
         /\ wrote[p]
         /\ existing[p] # Null /\ Len(existing[p][1]) > 0
         /\ existing[p][1][1].total_tokens < 100000
         /\ route[c] = "chat"
         /\ startedAfter[c]
         /\ body[c].userId = body[p].userId
         /\ RowsOf(body[c].userId) = {existing[p][1][1].id}
         /\ token_usage[existing[p][1][1].id].total_tokens
               = existing[p][1][1].total_tokens + 200000
         /\ usedTokens[c] = existing[p][1][1].total_tokens + 200000) =>
            response[c].status # 402

---------------------------------------------------------------------------
\* the supplied signature is the HMAC-SHA256 digest, under the key secret, of
\* "order_id|payment_id"
ValidSignature(b) ==
    b.razorpay_signature =
        [hmac |-> "sha256", key |-> "rzp_key_secret",
         text |-> b.razorpay_order_id \o <<"|">> \o b.razorpay_payment_id]

\* the step marks the transactions of the order of slot r paid, and only these
MarksPaid(r) ==
    /\ Len(transactions') = Len(transactions)
    /\ \A k \in 1..Len(transactions) :
          IF transactions[k].razorpay_order_id = body[r].razorpay_order_id
          THEN /\ transactions'[k].status = "paid"
               /\ transactions'[k].razorpay_payment_id = <<body[r].razorpay_payment_id>>
          ELSE transactions'[k] = transactions[k]

\* the step adds 200000 tokens for the user of slot r: to the row addTokens
\* read, or as a new row
Adds200000(r) ==
    \/ /\ existing[r] # Null /\ Len(existing[r][1]) > 0
       /\ Len(token_usage') = Len(token_usage)
       /\ token_usage'[existing[r][1][1].id].total_tokens
             = existing[r][1][1].total_tokens + 200000
       /\ token_usage'[existing[r][1][1].id].user_id = body[r].userId
    \/ /\ ~(existing[r] # Null /\ Len(existing[r][1]) > 0)
       /\ Len(token_usage') = Len(token_usage) + 1
       /\ token_usage'[Len(token_usage')].total_tokens = 200000
       /\ token_usage'[Len(token_usage')].user_id = body[r].userId

\* C19: verify-payment marks the transaction paid and adds 200000 tokens to the
\* user's ledger only when the HMAC-SHA256 digest of "order_id|payment_id"
\* equals the supplied signature; on a mismatch the answer is 400
\* invalid_signature and neither transactions nor token_usage is changed.
C19_SignatureGate ==
    /\ [](\A r \in Slots :
            (route[r] = "verify" /\ ~ValidSignature(body[r])) =>
                /\ pc[r] = "done"
                /\ response[r] = [status |-> 400, body |-> [error |-> "invalid_signature"]]
                /\ ~wrote[r])
    /\ [][(transactions' # transactions \/ token_usage' # token_usage) =>
            \E r \in Slots :
                /\ route[r] = "verify"
                /\ pc'[r] # pc[r]
                /\ ValidSignature(body[r])
                /\ transactions' # transactions => (pc[r] = "txUpdate" /\ MarksPaid(r))
                /\ token_usage' # token_usage => (pc[r] = "addWrite" /\ Adds200000(r))]_vars

\* a request signed for another order was refused, the stored order and the
\* ledger are as they were
C19_Witness ==
    \E r \in Slots :
        /\ route[r] = "verify"
        /\ body[r].razorpay_order_id = OrderA
        /\ body[r].razorpay_signature = Signed(OrderB, PaymentA)
        /\ response[r].status = 400
        /\ transactions = <<TxRow(OrderA, "u1")>>
        /\ token_usage = <<>>

\* a request with the signature of its order was verified: the order is paid
\* and the ledger holds the 200000
C19_WitnessPaid ==
    \E r \in Slots :
        /\ route[r] = "verify"
        /\ ValidSignature(body[r])
        /\ response[r].status = 200
        /\ Len(transactions) = 1 /\ transactions[1].status = "paid"
        /\ token_usage = <<TokenRow(1, "u1", 200000)>>

=============================================================================
